---- MODULE Spec2Model ----
(***************************************************************************)
(* UrbanMart: synthetic sales generator (generate_urbanmart_sales.py),     *)
(* analysis script (Urbanmart_analysis.py) and dashboard loader (app.py).  *)
(*                                                                         *)
(* Conventions of the model                                                *)
(*   - money is kept in cents, discount_pct in whole percent, so that      *)
(*     np.round(x, 2) is a rounding of an exact integer quotient;          *)
(*   - a date is the number of days since 2024-01-01 (day 0);              *)
(*   - transaction_id i stands for "T" + zfill(i, 7) and customer_id i     *)
(*     for "C" + zfill(i, 5) inside the generator; to_csv prints them;     *)
(*   - text that is parsed or normalised (CSV cells, the values of the     *)
(*     manual counter) is a sequence of one-character strings;             *)
(*   - the numpy Generator is a deterministic stream of states seeded      *)
(*     from the seed argument; every draw consumes one state.              *)
(***************************************************************************)
EXTENDS Integers, Sequences, FiniteSets, TLC

VARIABLES
  n_transactions, seed, start_date, end_date,  \* arguments of the generator
  runs,          \* results of the independent generator runs made so far
  file,          \* urbanmart_sales.csv: [exists, header, rows of text cells]
  gen_calls,     \* how often a loader has invoked the generator
  absences,      \* how often the file has been absent (history)
  cache,         \* st.cache_data memo of get_data: [hit, df]
  loads,         \* completed runs of each loader: [main, app]
  main_df,       \* frame of the analysis script's last run
  main_counts,   \* manual counts printed by the analysis script's last run
  df,            \* frame the dashboard script got from get_data
  fdf,           \* filtered subset of the dashboard
  kpi,           \* aggregates the dashboard computed from fdf
  values,        \* list handed to the manual transaction-type counter
  pos,           \* number of list elements the counter's loop has visited
  online_count, instore_count

genVars == <<n_transactions, seed, start_date, end_date, runs>>
loadVars == <<file, gen_calls, absences, cache, loads, main_df, main_counts, df, fdf, kpi>>
countVars == <<values, pos, online_count, instore_count>>
vars == <<genVars, loadVars, countVars>>

(***************************************************************************)
(* Bounds                                                                  *)
(***************************************************************************)
MaxN == 3            \* largest n_transactions explored
MaxSeed == 23        \* seeds 0 .. MaxSeed
MaxStart == 1        \* start_date in 0 .. MaxStart
MaxSpan == 2         \* end_date - start_date in 0 .. MaxSpan
PoolSize == 3        \* size of the customer pool explored (5000 in the code)
DefaultCount == 2    \* rows the loaders ask for (25000 in the code)
MaxRuns == 2         \* generator runs compared with each other
MaxLoads == 2        \* runs of each loader
MaxRows == 2         \* rows of a file found on disk
MaxLen == 2          \* length of the counter's input list

\* A parsed cell is <<v>>, or <<>> for the null sentinel (NaN, NaT).
NaN == <<>>
NaT == <<>>

(***************************************************************************)
(* Arithmetic helpers                                                      *)
(***************************************************************************)
RECURSIVE SumTo(_, _)
SumTo(p, k) == IF k = 0 THEN 0 ELSE p[k] + SumTo(p, k - 1)

Sum(p) == SumTo(p, Len(p))

\* np.round / rint: nearest integer to num / den, ties to even
RoundHalfEven(num, den) ==
  LET q == num \div den
      r == num % den
  IN  IF 2 * r < den THEN q
      ELSE IF 2 * r > den THEN q + 1
      ELSE IF q % 2 = 0 THEN q ELSE q + 1

(***************************************************************************)
(* The random generator: rng = np.random.default_rng(seed)                 *)
(***************************************************************************)
Modulus == 65536
Multiplier == 25173
Increment == 13849
Scale == 256         \* a draw is the double u / Scale in [0, 1)

\* variant: one generator shared by all runs, seeded by the first only
default_rng_shared(s) ==
  IF runs = <<>> THEN (s * 40503 + 12345) % Modulus ELSE runs[Len(runs)].rng

default_rng(s) == (s * 40503 + 12345) % Modulus

NextState(s) == (Multiplier * s + Increment) % Modulus

Uniform(s) == s \div (Modulus \div Scale)

\* rng.integers(low, high): uniform integer in low .. high - 1
integers(low, high, u) == low + (u * (high - low)) \div Scale

\* rng.choice(arr, p = p): inverse-cdf lookup; an entry of probability 0
\* has an empty interval and is never chosen
choice(arr, p, u) ==
  arr[CHOOSE i \in 1..Len(arr) :
        /\ u * Sum(p) < SumTo(p, i) * Scale
        /\ \A j \in 1..(i - 1) : ~(u * Sum(p) < SumTo(p, j) * Scale)]

(***************************************************************************)
(* Static tables of the generator                                          *)
(***************************************************************************)
stores == << <<"S001", "Downtown">>, <<"S002", "Uptown">>, <<"S003", "Midtown">>,
             <<"S004", "Riverside">>, <<"S005", "Tech Park">>, <<"S006", "Old Town">> >>

store_ids == [i \in 1..Len(stores) |-> stores[i][1]]

store_locs == [sid \in {stores[i][1] : i \in 1..Len(stores)} |->
                 stores[CHOOSE i \in 1..Len(stores) : stores[i][1] = sid][2]]

categories == <<"Groceries", "Beverages", "Household", "Personal Care",
                "Electronics", "Clothing">>

catalog ==
  [c \in {categories[i] : i \in 1..Len(categories)} |->
     CASE c = "Groceries" ->
            << <<"Rice 5kg", 1800>>, <<"Pasta Pack", 250>>, <<"Olive Oil 1L", 1000>>,
               <<"Breakfast Cereal", 450>>, <<"Coffee 250g", 600>> >>
       [] c = "Beverages" ->
            << <<"Sparkling Water 6-pack", 400>>, <<"Orange Juice", 350>>,
               <<"Soda 12-pack", 750>>, <<"Green Tea Box", 300>> >>
       [] c = "Household" ->
            << <<"Laundry Detergent", 900>>, <<"Dish Soap", 300>>,
               <<"Paper Towels", 650>>, <<"Trash Bags", 500>> >>
       [] c = "Personal Care" ->
            << <<"Shampoo", 600>>, <<"Toothpaste", 250>>,
               <<"Body Wash", 550>>, <<"Deodorant", 400>> >>
       [] c = "Electronics" ->
            << <<"Wireless Earbuds", 4500>>, <<"Phone Charger", 1500>>,
               <<"Smart Speaker", 6000>>, <<"Power Bank", 2500>> >>
       [] c = "Clothing" ->
            << <<"T-Shirt", 1200>>, <<"Jeans", 3500>>,
               <<"Sneakers", 5500>>, <<"Jacket", 7000>> >> ]

n_customers == PoolSize

segments == <<"Budget", "Regular", "Premium">>
segment_probs == <<35, 50, 15>>

store_probs == <<22, 18, 20, 14, 16, 10>>

channels == <<"Online", "In-store">>
channel_probs == <<35, 65>>

base_cat_probs == <<32, 14, 16, 14, 12, 12>>

IndexOf(arr, x) == CHOOSE i \in 1..Len(arr) : arr[i] = x

\* the online vector: +0.05 Electronics, -0.03 Groceries, -0.02 Household,
\* then divided by its sum (kept as weights; choice divides by Sum)
cat_probs_online ==
  [i \in 1..Len(base_cat_probs) |->
     IF i = IndexOf(categories, "Electronics") THEN base_cat_probs[i] + 5
     ELSE IF i = IndexOf(categories, "Groceries") THEN base_cat_probs[i] - 3
     ELSE IF i = IndexOf(categories, "Household") THEN base_cat_probs[i] - 2
     ELSE base_cat_probs[i]]

pm == <<"Card", "Cash", "Wallet", "UPI">>
pm_probs_instore == <<45, 25, 15, 15>>
pm_probs_online == <<55, 0, 25, 20>>

columns == <<"transaction_id", "date", "store_id", "store_location",
             "transaction_type", "customer_id", "customer_segment",
             "product_category", "product_name", "unit_price", "quantity",
             "discount_pct", "sales_amount", "payment_method">>

(***************************************************************************)
(* The generator, field by field                                           *)
(***************************************************************************)
\* variant: one offset too many
days_past_end(start, end) == (end - start) + 2

\* days = (end - start).astype(int) + 1
days(start, end) == (end - start) + 1

\* p = cat_probs_online if ch == "Online" else base_cat_probs
category_for(ch, u) ==
  choice(categories, IF ch = "Online" THEN cat_probs_online ELSE base_cat_probs, u)

\* price = float(np.round(price * rng.uniform(0.95, 1.10), 2))
price_with_noise(price, u) ==
  RoundHalfEven(price * (95 * Scale + 15 * u), 100 * Scale)

quantity_for(cat, u) ==
  IF cat \in {"Groceries", "Beverages", "Household", "Personal Care"}
    THEN integers(1, 6, u)
  ELSE IF cat = "Clothing" THEN integers(1, 4, u)
  ELSE integers(1, 3, u)

discount_for(cat, u) ==
  IF cat = "Groceries" THEN choice(<<0, 5, 10>>, <<75, 18, 7>>, u)
  ELSE IF cat \in {"Beverages", "Household", "Personal Care"}
    THEN choice(<<0, 5, 10, 15>>, <<55, 25, 15, 5>>, u)
  ELSE IF cat = "Clothing" THEN choice(<<0, 10, 20, 30>>, <<35, 35, 20, 10>>, u)
  ELSE choice(<<0, 5, 10, 15, 20>>, <<40, 25, 20, 10, 5>>, u)

\* variant: the segment is taken by row position, not by customer
txn_segments_by_position(customer_map, txn_customers) ==
  [i \in DOMAIN txn_customers |-> customer_map[((i - 1) % Len(customer_map)) + 1]]

\* txn_segments = np.array([customer_map[c] for c in txn_customers])
txn_segments_of(customer_map, txn_customers) ==
  [i \in DOMAIN txn_customers |-> customer_map[txn_customers[i]]]

\* variant: one payment distribution for both channels
payment_any_channel(ch, u) == choice(pm, pm_probs_instore, u)

\* probs = pm_probs_online if ch == "Online" else pm_probs_instore
payment_for(ch, u) ==
  choice(pm, IF ch = "Online" THEN pm_probs_online ELSE pm_probs_instore, u)

\* variant: the discount is not applied
net_of_gross(unit_price, quantity, discount_pct) ==
  RoundHalfEven((unit_price * quantity) * 100, 100)

\* gross = unit_prices * qty ; net = np.round(gross * (1 - discount_pct), 2)
net_of(unit_price, quantity, discount_pct) ==
  RoundHalfEven((unit_price * quantity) * (100 - discount_pct), 100)

\* txn_ids = [T0000001 .. T<n>]
txn_ids_of(n) == [i \in 1..n |-> i]

\* DataFrame.sort_values("date"): for the short frames explored numpy's
\* quicksort is an insertion sort, which keeps equal dates in frame order
RECURSIVE InsertByDate(_, _)
InsertByDate(sorted, r) ==
  IF sorted = <<>> THEN <<r>>
  ELSE IF sorted[Len(sorted)]["date"] <= r["date"] THEN Append(sorted, r)
  ELSE Append(InsertByDate(SubSeq(sorted, 1, Len(sorted) - 1), r), sorted[Len(sorted)])

RECURSIVE SortPrefix(_, _)
SortPrefix(frame, k) ==
  IF k = 0 THEN <<>> ELSE InsertByDate(SortPrefix(frame, k - 1), frame[k])

\* variant: ids are renumbered after the sort
sort_values_renumbered(frame) ==
  LET out == SortPrefix(frame, Len(frame))
  IN  [i \in DOMAIN out |-> [out[i] EXCEPT !["transaction_id"] = i]]

sort_values(frame) == SortPrefix(frame, Len(frame))

(***************************************************************************)
(* Text: str(i).zfill(w), float repr, ISO dates; to_csv                    *)
(***************************************************************************)
DigitChars == <<"0", "1", "2", "3", "4", "5", "6", "7", "8", "9">>

RECURSIVE FormatNat(_)
FormatNat(n) ==
  IF n < 10 THEN <<DigitChars[n + 1]>>
  ELSE FormatNat(n \div 10) \o <<DigitChars[(n % 10) + 1]>>

RECURSIVE zfill(_, _)
zfill(s, w) == IF Len(s) >= w THEN s ELSE zfill(<<"0">> \o s, w)

\* repr of the float h / 100 (h >= 0): "12.0", "12.5", "12.05"
FormatFloat(h) ==
  FormatNat(h \div 100) \o <<".">> \o
    (IF h % 10 = 0 THEN FormatNat((h % 100) \div 10)
     ELSE zfill(FormatNat(h % 100), 2))

EpochYear == 2024

IsLeap(y) == (y % 4 = 0 /\ y % 100 # 0) \/ y % 400 = 0

YearLen(y) == IF IsLeap(y) THEN 366 ELSE 365

MonthLen(y, m) ==
  IF m = 2 THEN (IF IsLeap(y) THEN 29 ELSE 28)
  ELSE IF m \in {4, 6, 9, 11} THEN 30 ELSE 31

RECURSIVE YearOfDay(_, _)
YearOfDay(d, y) ==
  IF d < YearLen(y) THEN <<y, d>> ELSE YearOfDay(d - YearLen(y), y + 1)

RECURSIVE MonthOfDay(_, _, _)
MonthOfDay(d, y, m) ==
  IF d < MonthLen(y, m) THEN <<m, d + 1>> ELSE MonthOfDay(d - MonthLen(y, m), y, m + 1)

\* a date (days since 2024-01-01, >= 0) printed as YYYY-MM-DD
FormatDate(d) ==
  LET yd == YearOfDay(d, EpochYear)
      md == MonthOfDay(yd[2], yd[1], 1)
  IN  zfill(FormatNat(yd[1]), 4) \o <<"-">> \o zfill(FormatNat(md[1]), 2)
        \o <<"-">> \o zfill(FormatNat(md[2]), 2)

\* the characters of the channel names the generator writes
Text(str) ==
  IF str = "Online" THEN <<"O", "n", "l", "i", "n", "e">>
  ELSE <<"I", "n", "-", "s", "t", "o", "r", "e">>

\* df.to_csv(out_path, index=False): the header is the frame's column
\* names, one text row per frame row, no index column
to_csv(frame) ==
  [header |-> columns,
   rows |-> [i \in 1..Len(frame) |->
      [c \in {columns[k] : k \in 1..Len(columns)} |->
         CASE c = "transaction_id" -> <<"T">> \o zfill(FormatNat(frame[i][c]), 7)
           [] c = "customer_id" -> <<"C">> \o zfill(FormatNat(frame[i][c]), 5)
           [] c = "date" -> FormatDate(frame[i][c])
           [] c = "transaction_type" -> Text(frame[i][c])
           [] c \in {"unit_price", "sales_amount", "discount_pct"} ->
                FormatFloat(frame[i][c])
           [] c = "quantity" -> FormatNat(frame[i][c])
           [] OTHER -> frame[i][c]]]]

(***************************************************************************)
(* generate_urbanmart_sales(out_path, n_transactions, seed, start, end)    *)
(* The result keeps the frame before the sort, the returned frame, the     *)
(* written file, the customer pool and the generator state at return.      *)
(***************************************************************************)
generate_urbanmart_sales(n, sd, start, end) ==
  LET total == n_customers + 10 * n
      st[k \in 0..total] == IF k = 0 THEN default_rng(sd) ELSE NextState(st[k - 1])
      U(k) == Uniform(st[k])
      b == n_customers
      customer_map == [c \in 1..n_customers |-> choice(segments, segment_probs, U(c))]
      random_days == [i \in 1..n |-> integers(0, days(start, end), U(b + i))]
      dates == [i \in 1..n |-> start + random_days[i]]
      txn_store_ids == [i \in 1..n |-> choice(store_ids, store_probs, U(b + n + i))]
      txn_channels == [i \in 1..n |-> choice(channels, channel_probs, U(b + 2 * n + i))]
      txn_categories == [i \in 1..n |-> category_for(txn_channels[i], U(b + 3 * n + i))]
      items(i) == catalog[txn_categories[i]]
      idx == [i \in 1..n |-> integers(0, Len(items(i)), U(b + 4 * n + 2 * i - 1))]
      product_names == [i \in 1..n |-> items(i)[idx[i] + 1][1]]
      unit_prices == [i \in 1..n |->
                        price_with_noise(items(i)[idx[i] + 1][2], U(b + 4 * n + 2 * i))]
      qty == [i \in 1..n |-> quantity_for(txn_categories[i], U(b + 6 * n + i))]
      discount_pct == [i \in 1..n |-> discount_for(txn_categories[i], U(b + 7 * n + i))]
      txn_customers == [i \in 1..n |-> 1 + integers(0, n_customers, U(b + 8 * n + i))]
      txn_segments == txn_segments_of(customer_map, txn_customers)
      payment_methods == [i \in 1..n |-> payment_for(txn_channels[i], U(b + 9 * n + i))]
      net == [i \in 1..n |-> net_of(unit_prices[i], qty[i], discount_pct[i])]
      txn_ids == txn_ids_of(n)
      frame == [i \in 1..n |->
                 [transaction_id |-> txn_ids[i],
                  date |-> dates[i],
                  store_id |-> txn_store_ids[i],
                  store_location |-> store_locs[txn_store_ids[i]],
                  transaction_type |-> txn_channels[i],
                  customer_id |-> txn_customers[i],
                  customer_segment |-> txn_segments[i],
                  product_category |-> txn_categories[i],
                  product_name |-> product_names[i],
                  unit_price |-> unit_prices[i],
                  quantity |-> qty[i],
                  discount_pct |-> discount_pct[i],
                  sales_amount |-> net[i],
                  payment_method |-> payment_methods[i]]]
      sorted == sort_values(frame)
  IN  [frame |-> frame, df |-> sorted,
       csv |-> [exists |-> TRUE] @@ to_csv(sorted),
       customer_map |-> customer_map, rng |-> st[total]]

NoCounts == [online |-> 0, instore |-> 0]

(***************************************************************************)
(* Text handling of the reporting layer: str.strip, str.lower,             *)
(* pd.to_numeric and pd.to_datetime with errors="coerce"                   *)
(***************************************************************************)
Whitespace == {" ", "\t", "\n", "\r", "\f"}

UpperChars == <<"A", "B", "C", "D", "E", "F", "G", "H", "I", "J", "K", "L", "M",
                "N", "O", "P", "Q", "R", "S", "T", "U", "V", "W", "X", "Y", "Z">>
LowerChars == <<"a", "b", "c", "d", "e", "f", "g", "h", "i", "j", "k", "l", "m",
                "n", "o", "p", "q", "r", "s", "t", "u", "v", "w", "x", "y", "z">>

RECURSIVE lstrip(_)
lstrip(text) ==
  IF text # <<>> /\ text[1] \in Whitespace THEN lstrip(Tail(text)) ELSE text

RECURSIVE rstrip(_)
rstrip(text) ==
  IF text # <<>> /\ text[Len(text)] \in Whitespace
    THEN rstrip(SubSeq(text, 1, Len(text) - 1)) ELSE text

\* variant: only leading whitespace is removed
strip_left_only(text) == lstrip(text)

strip(text) == rstrip(lstrip(text))

lower(text) ==
  [k \in DOMAIN text |->
     IF \E a \in DOMAIN UpperChars : UpperChars[a] = text[k]
       THEN LowerChars[CHOOSE a \in DOMAIN UpperChars : UpperChars[a] = text[k]]
       ELSE text[k]]

IsDigit(c) == \E d \in DOMAIN DigitChars : DigitChars[d] = c

DigitVal(c) == (CHOOSE d \in DOMAIN DigitChars : DigitChars[d] = c) - 1

AllDigits(text) == text # <<>> /\ \A k \in DOMAIN text : IsDigit(text[k])

RECURSIVE DigitsVal(_)
DigitsVal(text) ==
  IF text = <<>> THEN 0
  ELSE 10 * DigitsVal(SubSeq(text, 1, Len(text) - 1)) + DigitVal(text[Len(text)])

\* pd.to_numeric(cell, errors="coerce"): the value in hundredths, or NaN.
\* Decimal text "[-]digits[.digits]"; digits past the second decimal are
\* not kept (the cells of the model have at most two).
to_numeric(cell) ==
  LET neg == cell # <<>> /\ cell[1] = "-"
      body == IF neg THEN Tail(cell) ELSE cell
      dots == {k \in DOMAIN body : body[k] = "."}
      sign == IF neg THEN -1 ELSE 1
  IN  IF dots = {} THEN
        (IF AllDigits(body) THEN <<sign * 100 * DigitsVal(body)>> ELSE NaN)
      ELSE IF Cardinality(dots) = 1 THEN
        LET k == CHOOSE d \in dots : TRUE
            ip == SubSeq(body, 1, k - 1)
            fp == SubSeq(body, k + 1, Len(body))
            f2 == SubSeq(fp \o <<"0", "0">>, 1, 2)
        IN  IF AllDigits(ip) /\ AllDigits(fp)
              THEN <<sign * (100 * DigitsVal(ip) + DigitsVal(f2))>> ELSE NaN
      ELSE NaN

RECURSIVE DaysBeforeYear(_)
DaysBeforeYear(y) ==
  IF y = EpochYear THEN 0
  ELSE IF y > EpochYear THEN DaysBeforeYear(y - 1) + YearLen(y - 1)
  ELSE DaysBeforeYear(y + 1) - YearLen(y)

RECURSIVE DaysBeforeMonth(_, _)
DaysBeforeMonth(y, m) ==
  IF m = 1 THEN 0 ELSE DaysBeforeMonth(y, m - 1) + MonthLen(y, m - 1)

\* pd.to_datetime(cell, errors="coerce") for the YYYY-MM-DD text the
\* generator writes: the date, or NaT for anything else
to_datetime(cell) ==
  IF /\ Len(cell) = 10
     /\ cell[5] = "-" /\ cell[8] = "-"
     /\ \A k \in {1, 2, 3, 4, 6, 7, 9, 10} : IsDigit(cell[k])
  THEN LET y == DigitsVal(SubSeq(cell, 1, 4))
           m == DigitsVal(SubSeq(cell, 6, 7))
           d == DigitsVal(SubSeq(cell, 9, 10))
       IN  IF y >= 1 /\ m \in 1..12 /\ d >= 1 /\ d <= MonthLen(y, m)
             THEN <<DaysBeforeYear(y) + DaysBeforeMonth(y, m) + (d - 1)>>
             ELSE NaT
  ELSE NaT

(***************************************************************************)
(* The manual transaction-type counter of the analysis script              *)
(* A Python value is [kind |-> "str", text |-> characters] or a record of  *)
(* another kind ("none", "int", "float").                                  *)
(***************************************************************************)
Str(text) == [kind |-> "str", text |-> text]

online_word == <<"o", "n", "l", "i", "n", "e">>

instore_words == { <<"i", "n", "-", "s", "t", "o", "r", "e">>,
                   <<"i", "n", "s", "t", "o", "r", "e">>,
                   <<"i", "n", " ", "s", "t", "o", "r", "e">> }

\* one iteration of: for t in df["transaction_type"].tolist(): ...
count_step(t, counts) ==
  IF t.kind = "str" THEN
    LET tt == lower(strip(t.text)) IN
      IF tt = online_word THEN [counts EXCEPT !.online = @ + 1]
      ELSE IF tt \in instore_words THEN [counts EXCEPT !.instore = @ + 1]
      ELSE counts
  ELSE counts

RECURSIVE manual_count(_, _)
manual_count(list, k) ==
  IF k = 0 THEN NoCounts ELSE count_step(list[k], manual_count(list, k - 1))

(***************************************************************************)
(* Specification of the generator: the arguments are fixed at the start,   *)
(* then the function is run MaxRuns times, each run on its own.            *)
(***************************************************************************)
GenIdle ==
  /\ n_transactions = 0 /\ seed = 0 /\ start_date = 0 /\ end_date = 0
  /\ runs = <<>>

NoFile == [exists |-> FALSE, header |-> <<>>, rows |-> <<>>]

NoKpi == [total_sales |-> 0, orders |-> 0, customers |-> 0, units |-> 0]

LoadIdle ==
  /\ file = NoFile /\ gen_calls = 0 /\ absences = 0
  /\ cache = [hit |-> FALSE, df |-> <<>>]
  /\ loads = [main |-> 0, app |-> 0]
  /\ main_df = <<>> /\ main_counts = NoCounts
  /\ df = <<>> /\ fdf = <<>> /\ kpi = NoKpi

CountIdle ==
  /\ values = <<>> /\ pos = 0 /\ online_count = 0 /\ instore_count = 0

InitGen ==
  /\ n_transactions \in 0..MaxN
  /\ seed \in 0..MaxSeed
  /\ start_date \in 0..MaxStart
  /\ end_date \in start_date..(start_date + MaxSpan)
  /\ runs = <<>>
  /\ LoadIdle /\ CountIdle

Generate ==
  /\ Len(runs) < MaxRuns
  /\ runs' = Append(runs,
               generate_urbanmart_sales(n_transactions, seed, start_date, end_date))
  /\ UNCHANGED <<n_transactions, seed, start_date, end_date>>
  /\ UNCHANGED <<loadVars, countVars>>

NextGen == Generate

SpecGen == InitGen /\ [][NextGen]_vars

(***************************************************************************)
(* Properties of the generator                                             *)
(***************************************************************************)
Abs(x) == IF x < 0 THEN -x ELSE x

\* every record of every frame returned so far
Produced == UNION {{runs[k].df[i] : i \in DOMAIN runs[k].df} : k \in DOMAIN runs}

\* s is the exact value num / den rounded to the nearest integer, ties to even
IsRounded(s, num, den) ==
  /\ 2 * Abs(s * den - num) <= den
  /\ (2 * Abs(s * den - num) = den) => (s % 2 = 0)

\* C1: in every produced record sales_amount is unit_price * quantity *
\* (1 - discount_pct) of that same record rounded to 2 decimals, and is >= 0
C1_SalesAmount ==
  \A r \in Produced :
    /\ IsRounded(r.sales_amount, r.unit_price * r.quantity * (100 - r.discount_pct), 100)
    /\ r.sales_amount >= 0

\* a discounted multi-unit record whose exact amount is not a whole cent,
\* in a frame the sort has reordered
C1_Witness ==
  \E k \in DOMAIN runs :
    /\ runs[k].df # runs[k].frame
    /\ \E i \in DOMAIN runs[k].df :
         LET r == runs[k].df[i] IN
           /\ r.discount_pct > 0 /\ r.quantity > 1
           /\ (r.unit_price * r.quantity * (100 - r.discount_pct)) % 100 # 0

\* C2: no produced record has payment_method "Cash" with channel "Online"
C2_NoCashOnline ==
  \A r \in Produced : r.transaction_type = "Online" => r.payment_method # "Cash"

\* one frame holding an Online record and an In-store record paid in cash
C2_Witness ==
  \E k \in DOMAIN runs :
    /\ \E i \in DOMAIN runs[k].df : runs[k].df[i].transaction_type = "Online"
    /\ \E i \in DOMAIN runs[k].df :
         /\ runs[k].df[i].transaction_type = "In-store"
         /\ runs[k].df[i].payment_method = "Cash"

\* C3: customer_segment is the segment given to the customer_id when the
\* pool was created and store_location is the store table's entry for the
\* store_id; records sharing a key share the looked-up field
C3_Lookups ==
  \A k \in DOMAIN runs :
    LET out == runs[k].df IN
      /\ \A i \in DOMAIN out :
           /\ out[i].customer_segment = runs[k].customer_map[out[i].customer_id]
           /\ \E t \in DOMAIN stores :
                stores[t] = <<out[i].store_id, out[i].store_location>>
      /\ \A i, j \in DOMAIN out :
           /\ out[i].customer_id = out[j].customer_id
                => out[i].customer_segment = out[j].customer_segment
           /\ out[i].store_id = out[j].store_id
                => out[i].store_location = out[j].store_location

\* a customer who appears twice, at frame positions that differ from the
\* customer's place in the pool, in a pool with more than one segment
C3_Witness ==
  \E k \in DOMAIN runs :
    /\ \E c, d \in DOMAIN runs[k].customer_map :
         runs[k].customer_map[c] # runs[k].customer_map[d]
    /\ \E i, j \in DOMAIN runs[k].frame :
         /\ i < j
         /\ runs[k].frame[i].customer_id = runs[k].frame[j].customer_id
         /\ runs[k].frame[j].customer_id # j
         /\ runs[k].frame[i].store_id = runs[k].frame[j].store_id

documented_columns ==
  <<"transaction_id", "date", "store_id", "store_location", "channel",
    "customer_id", "customer_segment", "product_category", "product_name",
    "unit_price", "quantity", "discount_pct", "sales_amount", "payment_method">>

\* C5: the header of the written table is exactly the 14 documented column
\* names, in which the sales medium is the column channel
C5_HeaderIsDocumented ==
  \A k \in DOMAIN runs : runs[k].csv.header = documented_columns

\* C9: ids 1..count are given in generation order before the sort; the
\* returned rows are in non-decreasing date order and are a permutation of
\* the generated ones, so each record keeps its id and its fields
C9_IdsThenSort ==
  \A k \in DOMAIN runs :
    LET fr == runs[k].frame
        out == runs[k].df
    IN  /\ Len(fr) = n_transactions /\ Len(out) = n_transactions
        /\ \A i \in DOMAIN fr : fr[i].transaction_id = i
        /\ \A i, j \in DOMAIN out : i < j => out[i].date <= out[j].date
        /\ \A i \in DOMAIN fr : Cardinality({j \in DOMAIN out : out[j] = fr[i]}) = 1
        /\ \A i \in DOMAIN out : runs[k].csv.rows[i]["transaction_id"]
                                   = <<"T">> \o zfill(FormatNat(out[i].transaction_id), 7)

\* the sort moved a row: the first returned row is not transaction 1
C9_Witness ==
  \E k \in DOMAIN runs :
    /\ Len(runs[k].df) >= 3
    /\ runs[k].df[1].transaction_id # 1
    /\ \E i \in DOMAIN runs[k].df : runs[k].df[i].date # runs[k].df[1].date

\* C10: every record's date lies in [start_date, end_date]
C10_DateInRange ==
  \A r \in Produced : start_date <= r.date /\ r.date <= end_date

\* both ends of a range of several days occur in one frame
C10_Witness ==
  /\ start_date < end_date
  /\ \E r \in Produced : r.date = start_date
  /\ \E r \in Produced : r.date = end_date

(***************************************************************************)
(* Specification of the manual counter: the loop over a list of values     *)
(***************************************************************************)
ExampleList ==
  << Str(<<"O", "n", "l", "i", "n", "e">>),
     Str(<<"O", "N", "L", "I", "N", "E", " ">>),
     Str(<<"i", "n", "-", "s", "t", "o", "r", "e">>),
     Str(<<"I", "n", "S", "t", "o", "r", "e">>),
     Str(<<"i", "n", " ", "s", "t", "o", "r", "e">>),
     [kind |-> "none"],
     [kind |-> "int", v |-> 42],
     Str(<<"o", "t", "h", "e", "r">>) >>

ValuePool ==
  {ExampleList[k] : k \in DOMAIN ExampleList} \cup
  { Str(<<" ", "\t", "o", "n", "L", "i", "n", "e", "\n">>),
    Str(<<"I", "N", " ", "S", "T", "O", "R", "E", " ">>),
    Str(<<"i", "n", " ", " ", "s", "t", "o", "r", "e">>),
    Str(<<"o", "n", " ", "l", "i", "n", "e">>),
    Str(<<"i", "n", "_", "s", "t", "o", "r", "e">>),
    Str(<<"o", "n", "l", "i", "n", "e", "s">>),
    Str(<<>>),
    [kind |-> "float", v |-> NaN] }

ListsUpTo(n) == UNION {[1..k -> ValuePool] : k \in 0..n}

InitCount ==
  /\ values \in ListsUpTo(MaxLen) \cup {ExampleList}
  /\ pos = 0 /\ online_count = 0 /\ instore_count = 0
  /\ GenIdle /\ LoadIdle

\* one iteration of the for loop
CountLoop ==
  /\ pos < Len(values)
  /\ LET c == count_step(values[pos + 1],
                         [online |-> online_count, instore |-> instore_count])
     IN  /\ online_count' = c.online
         /\ instore_count' = c.instore
  /\ pos' = pos + 1
  /\ UNCHANGED values
  /\ UNCHANGED <<genVars, loadVars>>

NextCount == CountLoop

SpecCount == InitCount /\ [][NextCount]_vars

\* c is letter w in either case
SameLetter(c, w) ==
  c = w \/ \E a \in DOMAIN LowerChars : LowerChars[a] = w /\ UpperChars[a] = c

\* text is word, in any mix of cases, between two runs of whitespace
IsVariantOf(text, word) ==
  \E i \in 0..Len(text) :
    /\ i + Len(word) <= Len(text)
    /\ \A k \in 1..i : text[k] \in Whitespace
    /\ \A k \in 1..Len(word) : SameLetter(text[i + k], word[k])
    /\ \A k \in (i + Len(word) + 1)..Len(text) : text[k] \in Whitespace

CountsAsOnline(v) == v.kind = "str" /\ IsVariantOf(v.text, <<"o", "n", "l", "i", "n", "e">>)

CountsAsInStore(v) ==
  /\ v.kind = "str"
  /\ \/ IsVariantOf(v.text, <<"i", "n", "-", "s", "t", "o", "r", "e">>)
     \/ IsVariantOf(v.text, <<"i", "n", "s", "t", "o", "r", "e">>)
     \/ IsVariantOf(v.text, <<"i", "n", " ", "s", "t", "o", "r", "e">>)

\* C8: after k elements the Online count is the number of strings among
\* them that are "online" up to case and surrounding whitespace, the
\* In-store count the number that are "in-store", "instore" or "in store"
\* likewise; nothing else is counted; the example list gives 2 and 3
C8_ManualCount ==
  /\ pos \in 0..Len(values)
  /\ online_count = Cardinality({k \in 1..pos : CountsAsOnline(values[k])})
  /\ instore_count = Cardinality({k \in 1..pos : CountsAsInStore(values[k])})
  /\ (values = ExampleList /\ pos = Len(values))
       => (online_count = 2 /\ instore_count = 3)

C8_Witness ==
  /\ values = ExampleList /\ pos = Len(values)
  /\ online_count = 2 /\ instore_count = 3

(***************************************************************************)
(* The loaders: main() of the analysis script, get_data() and the script   *)
(* body of the dashboard                                                   *)
(***************************************************************************)
DefaultSeed == 42
DefaultStart == 0      \* "2024-01-01"
DefaultEnd == 365      \* "2024-12-31"

\* variant: the existence test is dropped
must_generate_always(f) == TRUE

\* if not os.path.exists(path)
must_generate(f) == ~f.exists

\* generate_urbanmart_sales(out_path=path, n_transactions=25000, seed=42)
default_file ==
  generate_urbanmart_sales(DefaultCount, DefaultSeed, DefaultStart, DefaultEnd).csv

\* pd.read_csv(path): one frame row per text row; an empty cell is NaN and
\* the other cells keep their text until to_datetime / to_numeric read them
read_csv(f) == [i \in DOMAIN f.rows |-> f.rows[i]]

\* df.dropna(subset=...)
dropna(frame, subset) ==
  SelectSeq(frame, LAMBDA r : \A c \in subset : r[c] # NaN)

\* the body of get_data after the existence test
clean(frame) ==
  dropna([i \in DOMAIN frame |->
            [frame[i] EXCEPT !["date"] = to_datetime(@),
                             !["sales_amount"] = to_numeric(@),
                             !["quantity"] = to_numeric(@)]],
         {"date", "sales_amount"})

\* the frame of main() after df["date"] = pd.to_datetime(...)
main_frame(frame) ==
  [i \in DOMAIN frame |-> [frame[i] EXCEPT !["date"] = to_datetime(@)]]

\* df["transaction_type"].tolist()
type_values(frame) ==
  [i \in DOMAIN frame |->
     IF frame[i]["transaction_type"] = <<>> THEN [kind |-> "float", v |-> NaN]
     ELSE Str(frame[i]["transaction_type"])]

RECURSIVE SumCol(_, _, _)
SumCol(frame, col, k) ==
  IF k = 0 THEN 0
  ELSE SumCol(frame, col, k - 1) + (IF frame[k][col] = NaN THEN 0 ELSE frame[k][col][1])

ColSet(frame, col) == {frame[i][col] : i \in DOMAIN frame}

\* the boolean mask that builds fdf
filtered(frame, sel) ==
  SelectSeq(frame, LAMBDA r :
    /\ r["date"][1] >= sel.start /\ r["date"][1] <= sel.end
    /\ r["store_id"] \in sel.stores
    /\ r["product_category"] \in sel.cats
    /\ r["transaction_type"] \in sel.chans)

\* header KPIs and the units total of cat_perf
aggregates(frame) ==
  [total_sales |-> SumCol(frame, "sales_amount", Len(frame)),
   orders |-> Cardinality(ColSet(frame, "transaction_id")),
   customers |-> Cardinality(ColSet(frame, "customer_id")),
   units |-> SumCol(frame, "quantity", Len(frame))]

\* what the sidebar lets the user select for a frame
Selections(frame) ==
  LET ds == {frame[i]["date"][1] : i \in DOMAIN frame} IN
    [start : ds, end : ds,
     stores : SUBSET ColSet(frame, "store_id"),
     cats : SUBSET ColSet(frame, "product_category"),
     chans : SUBSET ColSet(frame, "transaction_type")]

(***************************************************************************)
(* Specification of the reporting layer                                    *)
(***************************************************************************)
\* the (date, sales_amount, quantity) cells a row on disk may hold: well
\* formed ones, and ones whose date is no date, whose amount is empty or
\* whose quantity is no number
RowCells ==
  { <<FormatDate(0), <<"1", "2", ".", "5">>, <<"2">>>>,
    <<FormatDate(1), <<"7", ".", "2", "5">>, <<"1">>>>,
    <<<<"n", "/", "a">>, <<"1", "2", ".", "5">>, <<"2">>>>,
    <<FormatDate(0), <<>>, <<"2">>>>,
    <<FormatDate(1), <<"1", "2", ".", "5">>, <<"x">>>> }

\* row i of a file found on disk, with the given date, amount and quantity
RawRow(i, cells) ==
  [transaction_id |-> <<"T">> \o zfill(FormatNat(i), 7),
   date |-> cells[1],
   store_id |-> "S001",
   store_location |-> "Downtown",
   transaction_type |-> Text(channels[((i - 1) % 2) + 1]),
   customer_id |-> <<"C", "0", "0", "0", "0", "1">>,
   customer_segment |-> "Regular",
   product_category |-> IF i % 2 = 1 THEN "Groceries" ELSE "Clothing",
   product_name |-> IF i % 2 = 1 THEN "Rice 5kg" ELSE "Jeans",
   unit_price |-> <<"1", "8", ".", "0">>,
   quantity |-> cells[3],
   discount_pct |-> <<"0", ".", "0">>,
   sales_amount |-> cells[2],
   payment_method |-> "Card"]

RawFiles ==
  {[exists |-> TRUE, header |-> columns,
    rows |-> [i \in DOMAIN cs |-> RawRow(i, cs[i])]] :
     cs \in UNION {[1..k -> RowCells] : k \in 0..MaxRows}}

InitReport ==
  /\ file \in {NoFile} \cup RawFiles
  /\ gen_calls = 0
  /\ absences = IF file.exists THEN 0 ELSE 1
  /\ cache = [hit |-> FALSE, df |-> <<>>]
  /\ loads = [main |-> 0, app |-> 0]
  /\ main_df = <<>> /\ main_counts = NoCounts
  /\ df = <<>> /\ fdf = <<>> /\ kpi = NoKpi
  /\ GenIdle /\ CountIdle

\* one run of the analysis script
main ==
  /\ loads.main < MaxLoads
  /\ LET gen == must_generate(file)
         f == IF gen THEN default_file ELSE file
         frame == main_frame(read_csv(f))
     IN  /\ file' = f
         /\ gen_calls' = IF gen THEN gen_calls + 1 ELSE gen_calls
         /\ main_df' = frame
         /\ main_counts' = manual_count(type_values(frame), Len(frame))
  /\ loads' = [loads EXCEPT !.main = @ + 1]
  /\ UNCHANGED <<absences, cache, df, fdf, kpi>>
  /\ UNCHANGED <<genVars, countVars>>

\* one run of the dashboard script: get_data through st.cache_data, then
\* the sidebar selection, fdf and the aggregates
app ==
  /\ loads.app < MaxLoads
  /\ LET gen == ~cache.hit /\ must_generate(file)
         f == IF gen THEN default_file ELSE file
         got == IF cache.hit THEN cache.df ELSE clean(read_csv(f))
     IN  /\ file' = f
         /\ gen_calls' = IF gen THEN gen_calls + 1 ELSE gen_calls
         /\ cache' = [hit |-> TRUE, df |-> got]
         /\ df' = got
         /\ IF got = <<>>
              THEN fdf' = <<>> /\ kpi' = NoKpi   \* no date to offer: the script stops
              ELSE \E sub \in {filtered(got, sel) :
                                 sel \in {x \in Selections(got) : x.start <= x.end}} :
                     /\ fdf' = sub
                     /\ kpi' = aggregates(sub)
  /\ loads' = [loads EXCEPT !.app = @ + 1]
  /\ UNCHANGED <<absences, main_df, main_counts>>
  /\ UNCHANGED <<genVars, countVars>>

\* the dashboard process is restarted: the memo is gone
restart ==
  /\ cache.hit
  /\ loads.app < MaxLoads
  /\ cache' = [hit |-> FALSE, df |-> <<>>]
  /\ UNCHANGED <<file, gen_calls, absences, loads, main_df, main_counts, df, fdf, kpi>>
  /\ UNCHANGED <<genVars, countVars>>

NextReport == main \/ app \/ restart

SpecReport == InitReport /\ [][NextReport]_vars

\* C6: a loader run that finds no file invokes the generator with the
\* defaults and reads the file it wrote; a run that finds the file does not
\* invoke the generator and leaves the file as it is; after a run the file
\* exists, and the generator has run at most once per absence of the file
C6_RegenerateIfAbsent ==
  [][ (loads' # loads) =>
        /\ IF ~file.exists
             THEN gen_calls' = gen_calls + 1 /\ file' = default_file
             ELSE gen_calls' = gen_calls /\ file' = file
        /\ (loads'.main # loads.main) => main_df' = main_frame(read_csv(file'))
        /\ (loads'.app # loads.app) => df' = clean(read_csv(file'))
        /\ file'.exists
        /\ gen_calls' <= absences' ]_vars

\* the file was absent, one loader regenerated it, and later runs of both
\* loaders found it
C6_Witness ==
  /\ absences = 1 /\ gen_calls = 1 /\ file = default_file
  /\ loads.main >= 1 /\ loads.app >= 1
  /\ main_df # <<>> /\ df # <<>>

\* C7: no row with a null date, a null sales_amount or a null quantity is
\* in the filtered subset the aggregates are computed from
C7_NoNullReachesAggregates ==
  \A i \in DOMAIN fdf :
    /\ fdf[i]["date"] # NaT
    /\ fdf[i]["sales_amount"] # NaN
    /\ fdf[i]["quantity"] # NaN

====
